---- MODULE Spec2Model ----
(***************************************************************************)
(* A model of the PrivateBOT Discord relay (src/ionetbot.js and its two    *)
(* variants): the ephemeral private channels with their two deletion       *)
(* paths, the messageCreate dispatch to the OpenAI Assistants backend with *)
(* its thread map, rate gate and status polling, and the DM session gate.  *)
(* Every await of the source is a suspension point: one action runs the    *)
(* code from one await to the next.                                        *)
(***************************************************************************)
EXTENDS Integers, Sequences, FiniteSets, TLC

(* ------------------------------ bounds --------------------------------- *)

\* Number of private channels that are ever created.
MaxSpaces == 1
\* Number of times the close_ticket button of one channel is pressed.
MaxPresses == 2

\* Number of messages whose handlers run (concurrently) in one behaviour.
MaxMsgs == 2
\* Number of conversations (private channels, DM channels and their users).
MaxConvs == 2
\* Number of platform or backend calls that fail.
MaxFaults == 1
\* Number of status retrievals of one run that the backend answers with a
\* non-terminal status: when handlers run concurrently, and for one handler.
MaxWaits == 1
MaxPollWaits == 2

Spaces == 1..MaxSpaces
Msgs == 1..MaxMsgs
Convs == 1..MaxConvs

(* -------------------------- program constants -------------------------- *)

\* 20 * 1000: the cooldown after a rate_limit_exceeded failure.
Penalty == 20000
\* The length of a DM session.
SessionWindow == 600000
\* response.substring(0, 1999)
ReplyCharLimit == 1999
\* threadMap[id] and dmSessions[id] of an id that was never set (undefined).
Undefined == 0

terminalStates == {"cancelled", "failed", "completed", "expired"}

(* ----------------------------- variables ------------------------------- *)

VARIABLES
  \* --- discord side of the private channels (src/ionetbot.js) ---
  chan,             \* platform state of each channel: "none", "live", "deleted"
  greeted,          \* the greeting with the close_ticket button was posted
  channelsMap,      \* the ids held by channelsMap
  cpc,              \* position of the !createPrivateChannel handler
  tpc,              \* position of the setTimeout deletion callback
  presses,          \* close_ticket activations handled so far
  closing,          \* interactionCreate handlers waiting on channel.delete()
  \* --- persistence (MongoDB collections), as counts per channel id ---
  events,           \* 'Channel Creation' records
  channelDeletions, \* 'Channel Deletion' records
  \* --- history ---
  deleteCalls,      \* calls of channel.delete() issued per channel
  faults,           \* a platform call failed although the channel was live
  dbFailed,         \* a persistence operation failed (and was swallowed)
  \* --- the program that runs ---
  variant,          \* "mongo" (ionetbot.js), "plain" (ionetbot_withoutMongoDB.js)
                    \* or "dm" (ionetbot_test_dm.js)
  \* --- clock ---
  now,              \* Date.now(), in ms since the process started
  \* --- module state of the dispatch ---
  threadMap,        \* conversation id -> OpenAI thread id, or Undefined
  nextAvailableTime,
  dmSessions,       \* user id -> session end time, or Undefined
  h,                \* the messageCreate handler of each message
  \* --- OpenAI backend ---
  nThreads,         \* threads created so far (their ids are 1..nThreads)
  threads,          \* thread id -> its messages, oldest first
  \* --- discord and persistence side of the dispatch ---
  sent,             \* what was delivered to the user for each message
  privateMessages,  \* interaction records written, per message
  \* --- history ---
  polled,           \* the statuses each message's statusCheckLoop retrieved
  createCalls,      \* calls of openai.beta.threads.create per conversation
  lastStart,        \* time of each user's latest honoured session start
  penAt,            \* time of the latest penalty, -1 before the first
  nfail             \* number of calls that failed so far

spaceVars == <<chan, greeted, channelsMap, cpc, tpc, presses, closing,
               events, channelDeletions, deleteCalls, faults, dbFailed>>

dispVars == <<variant, now, threadMap, nextAvailableTime, dmSessions,
              h, nThreads, threads, sent, privateMessages, polled,
              createCalls, lastStart, penAt, nfail>>

vars == <<spaceVars, dispVars>>

(* -------------------------- persistence -------------------------------- *)

\* withDb(operation): runs the insert; an error is logged and swallowed.
withDb(coll, id, ok) ==
  IF ok THEN [coll EXCEPT ![id] = @ + 1] ELSE coll

(* ----------------------- private channels ------------------------------ *)

SpaceInit ==
  /\ chan = [s \in Spaces |-> "none"]
  /\ greeted = [s \in Spaces |-> FALSE]
  /\ channelsMap = {}
  /\ cpc = [s \in Spaces |-> "idle"]
  /\ tpc = [s \in Spaces |-> "unset"]
  /\ presses = [s \in Spaces |-> 0]
  /\ closing = [s \in Spaces |-> 0]
  /\ events = [s \in Spaces |-> 0]
  /\ channelDeletions = [s \in Spaces |-> 0]
  /\ deleteCalls = [s \in Spaces |-> 0]
  /\ faults = FALSE
  /\ dbFailed = FALSE

\* messageCreate with !createPrivateChannel in the command channel: the
\* handler calls guild.channels.create and waits.
CreateCommand(s) ==
  /\ UNCHANGED dispVars
  /\ cpc[s] = "idle"
  /\ cpc' = [cpc EXCEPT ![s] = "awaitCreate"]
  /\ UNCHANGED <<chan, greeted, channelsMap, tpc, presses, closing, events,
                 channelDeletions, deleteCalls, faults, dbFailed>>

\* guild.channels.create returns: the channel is stored in channelsMap and
\* the greeting is sent; an error goes to the catch, which replies.
CreateReturn(s, ok) ==
  /\ UNCHANGED dispVars
  /\ cpc[s] = "awaitCreate"
  /\ IF ok
       THEN /\ chan' = [chan EXCEPT ![s] = "live"]
            /\ channelsMap' = channelsMap \cup {s}
            /\ cpc' = [cpc EXCEPT ![s] = "awaitGreet"]
       ELSE /\ cpc' = [cpc EXCEPT ![s] = "awaitFailReply"]
            /\ UNCHANGED <<chan, channelsMap>>
  /\ UNCHANGED <<greeted, tpc, presses, closing, events, channelDeletions,
                 deleteCalls, faults, dbFailed>>

\* channel.send(greeting) returns: the confirmation reply is sent.
GreetReturn(s, ok) ==
  /\ UNCHANGED dispVars
  /\ cpc[s] = "awaitGreet"
  /\ IF ok
       THEN /\ greeted' = [greeted EXCEPT ![s] = TRUE]
            /\ cpc' = [cpc EXCEPT ![s] = "awaitConfirm"]
            /\ UNCHANGED faults
       ELSE /\ cpc' = [cpc EXCEPT ![s] = "awaitFailReply"]
            /\ faults' = TRUE
            /\ UNCHANGED greeted
  /\ UNCHANGED <<chan, channelsMap, tpc, presses, closing, events,
                 channelDeletions, deleteCalls, dbFailed>>

\* message.reply(confirmation) returns: the creation record is written
\* through withDb (not awaited) and the deletion timer is set.
ConfirmReturn(s, ok, dbOk) ==
  /\ UNCHANGED dispVars
  /\ cpc[s] = "awaitConfirm"
  /\ IF ok
       THEN /\ events' = withDb(events, s, dbOk)
            /\ dbFailed' = (dbFailed \/ ~dbOk)
            /\ tpc' = [tpc EXCEPT ![s] = "pending"]
            /\ cpc' = [cpc EXCEPT ![s] = "done"]
            /\ UNCHANGED faults
       ELSE /\ cpc' = [cpc EXCEPT ![s] = "awaitFailReply"]
            /\ faults' = TRUE
            /\ UNCHANGED <<events, dbFailed, tpc>>
  /\ UNCHANGED <<chan, greeted, channelsMap, presses, closing,
                 channelDeletions, deleteCalls>>

\* message.reply('Failed to create private channel.') returns.
CreateFailReplyReturn(s) ==
  /\ UNCHANGED dispVars
  /\ cpc[s] = "awaitFailReply"
  /\ cpc' = [cpc EXCEPT ![s] = "done"]
  /\ UNCHANGED <<chan, greeted, channelsMap, tpc, presses, closing, events,
                 channelDeletions, deleteCalls, faults, dbFailed>>

\* A timer callback that does not look into channelsMap before fetching
\* (sensitivity of C19).
TimerFireUnguarded(s) ==
  /\ UNCHANGED dispVars
  /\ tpc[s] = "pending"
  /\ tpc' = [tpc EXCEPT ![s] = "awaitFetch"]
  /\ UNCHANGED <<chan, greeted, channelsMap, cpc, presses, closing, events,
                 channelDeletions, deleteCalls, faults, dbFailed>>

\* The 600000 ms timer fires: the callback runs only if the id is still in
\* channelsMap, and then fetches the channel.
TimerFire(s) ==
  /\ UNCHANGED dispVars
  /\ tpc[s] = "pending"
  /\ tpc' = [tpc EXCEPT ![s] = IF s \in channelsMap THEN "awaitFetch" ELSE "done"]
  /\ UNCHANGED <<chan, greeted, channelsMap, cpc, presses, closing, events,
                 channelDeletions, deleteCalls, faults, dbFailed>>

\* client.channels.fetch returns: a channel (delete() is called on it),
\* nothing, or an error; the last two end in the finally block.
FetchReturn(s, r) ==
  /\ UNCHANGED dispVars
  /\ tpc[s] = "awaitFetch"
  /\ IF r = "ok"
       THEN /\ deleteCalls' = [deleteCalls EXCEPT ![s] = @ + 1]
            /\ tpc' = [tpc EXCEPT ![s] = "awaitDelete"]
            /\ UNCHANGED <<channelsMap, faults>>
       ELSE /\ channelsMap' = channelsMap \ {s}
            /\ tpc' = [tpc EXCEPT ![s] = "done"]
            /\ faults' = (faults \/ chan[s] = "live")
            /\ UNCHANGED deleteCalls
  /\ UNCHANGED <<chan, greeted, cpc, presses, closing, events,
                 channelDeletions, dbFailed>>

\* fetchedChannel.delete() returns in the timer callback: on success the
\* deletion record is written through withDb; the finally block removes the
\* id from channelsMap in every case.
TimerDeleteReturn(s, ok, dbOk) ==
  /\ UNCHANGED dispVars
  /\ tpc[s] = "awaitDelete"
  /\ ok => chan[s] = "live"
  /\ IF ok
       THEN /\ chan' = [chan EXCEPT ![s] = "deleted"]
            /\ channelDeletions' = withDb(channelDeletions, s, dbOk)
            /\ dbFailed' = (dbFailed \/ ~dbOk)
            /\ UNCHANGED faults
       ELSE /\ faults' = (faults \/ chan[s] = "live")
            /\ UNCHANGED <<chan, channelDeletions, dbFailed>>
  /\ channelsMap' = channelsMap \ {s}
  /\ tpc' = [tpc EXCEPT ![s] = "done"]
  /\ UNCHANGED <<greeted, cpc, presses, closing, events, deleteCalls>>

\* interactionCreate for the close_ticket button of channel s: when the id
\* is in channelsMap, channel.delete() is called.
ClosePress(s) ==
  /\ UNCHANGED dispVars
  /\ presses[s] < MaxPresses
  /\ chan[s] = "live"
  /\ greeted[s]
  /\ presses' = [presses EXCEPT ![s] = @ + 1]
  /\ IF s \in channelsMap
       THEN /\ deleteCalls' = [deleteCalls EXCEPT ![s] = @ + 1]
            /\ closing' = [closing EXCEPT ![s] = @ + 1]
       ELSE UNCHANGED <<deleteCalls, closing>>
  /\ UNCHANGED <<chan, greeted, channelsMap, cpc, tpc, events,
                 channelDeletions, faults, dbFailed>>

\* channel.delete() returns in the button handler: on success the id is
\* removed from channelsMap; an error is only logged.
CloseDeleteReturn(s, ok) ==
  /\ UNCHANGED dispVars
  /\ closing[s] > 0
  /\ ok => chan[s] = "live"
  /\ closing' = [closing EXCEPT ![s] = @ - 1]
  /\ IF ok
       THEN /\ chan' = [chan EXCEPT ![s] = "deleted"]
            /\ channelsMap' = channelsMap \ {s}
            /\ UNCHANGED faults
       ELSE /\ faults' = (faults \/ chan[s] = "live")
            /\ UNCHANGED <<chan, channelsMap>>
  /\ UNCHANGED <<greeted, cpc, tpc, presses, events, channelDeletions,
                 deleteCalls, dbFailed>>

(* ------------------------------ texts ---------------------------------- *)

\* A text is a sequence of characters.
CreateCmd == <<"!", "c", "r", "e", "a", "t", "e">>
Hello == <<"h", "e", "l", "l", "o">>
Letters == <<"a", "b", "c", "d", "e", "f", "g">>

\* s.startsWith(p)
startsWith(s, p) == Len(s) >= Len(p) /\ SubSeq(s, 1, Len(p)) = p

\* A substring that keeps one character too many (sensitivity of C10).
substringInclusive(s, a, b) ==
  SubSeq(s, a + 1, IF b + 1 < Len(s) THEN b + 1 ELSE Len(s))

\* s.substring(a, b), for 0 <= a <= b
substring(s, a, b) == SubSeq(s, a + 1, IF b < Len(s) THEN b ELSE Len(s))

\* A text of n characters.
TextOfLen(n) == [i \in 1..n |-> Letters[(i % Len(Letters)) + 1]]

\* What the bot delivers: a notice, or the reply with the response text.
Notice(k) == [kind |-> k, text |-> <<>>]
Reply(txt) == [kind |-> "reply", text |-> txt]

(* ---------------------- module state of the dispatch ------------------- *)

getOpenAiThreadId(discordThreadId) == threadMap[discordThreadId]

addThreadToMap(discordThreadId, openAiThreadId) ==
  [threadMap EXCEPT ![discordThreadId] = openAiThreadId]

(* Deviations from the code's expressions, against which the sensitivity
   of the properties is measured: a rate check that also denies at the end
   of the penalty (C5), a penalty counted from the arrival of the message
   (C4) or from the failed retrieval (C8), a session that is refused at its
   last instant (C6) or that lasts one minute (C9), and a poll loop that
   does not know 'expired' (C7). *)
rateLimitedInclusive(t) == t <= nextAvailableTime
penalizeFromArrival(m) == h[m].arrAt + Penalty
penalizeFromCompletion(m) == h[m].failedAt + Penalty
sessionRefusedAtEnd(u, t) == dmSessions[u] = Undefined \/ t >= dmSessions[u]
sessionEndShort(t) == t + 60000
isTerminalWithoutExpired(st) == st \in terminalStates \ {"expired"}

\* A start command that is honoured in whatever channel it is written
\* (sensitivity of C11).
isStartCommandAnywhere(k, content) == startsWith(content, CreateCmd)

\* Date.now() < nextAvailableTime
rateLimited(t) == t < nextAvailableTime

\* nextAvailableTime = Date.now() + 20 * 1000, evaluated in the handler of m
\* when the failure detail has arrived.
penalize(m) == now + Penalty

\* !sessionEndTime || Date.now() > sessionEndTime
sessionRefused(u, t) == dmSessions[u] = Undefined \/ t > dmSessions[u]

\* dmSessions[discordId] = Date.now() + 600000
sessionEnd(t) == t + SessionWindow

\* terminalStates.includes(run.status)
isTerminal(st) == st \in terminalStates

\* message.content.startsWith("!create") && message.channel.id === <trigger>
isStartCommand(k, content) == startsWith(content, CreateCmd) /\ k = "trigger"

\* messages.data: the messages of a thread, newest first.
listMessages(tid) ==
  [i \in 1..Len(threads[tid]) |-> threads[tid][Len(threads[tid]) + 1 - i]]

Idle ==
  [pc |-> "idle", kind |-> "none", conv |-> 0, content |-> <<>>,
   tid |-> Undefined, status |-> "none", resp |-> <<>>, gate |-> "none",
   arrAt |-> -1, failedAt |-> -1, polls |-> 0, sleeps |-> 0, calls |-> 0,
   created |-> 0, penalized |-> FALSE]

DispInit(v) ==
  /\ variant = v
  /\ now = 0
  /\ threadMap = [c \in Convs |-> Undefined]
  /\ nextAvailableTime = now
  /\ dmSessions = [c \in Convs |-> Undefined]
  /\ h = [m \in Msgs |-> Idle]
  /\ nThreads = 0
  /\ threads = [t \in Msgs |-> <<>>]
  /\ sent = [m \in Msgs |-> <<>>]
  /\ privateMessages = [m \in Msgs |-> 0]
  /\ polled = [m \in Msgs |-> <<>>]
  /\ createCalls = [c \in Convs |-> 0]
  /\ lastStart = [c \in Convs |-> -1]
  /\ penAt = -1
  /\ nfail = 0

\* The outcome of an awaited call: it returns (ok) or throws.
Outcome(ok) ==
  /\ ok \/ nfail < MaxFaults
  /\ nfail' = IF ok THEN nfail ELSE nfail + 1

\* A catch that ends the handler without telling the user (sensitivity of
\* C14).
CaughtSilently(m) == [h[m] EXCEPT !.pc = "done"]

\* An error thrown inside the try block: the catch replies with the
\* processing-error notice.
Caught(m) == [h[m] EXCEPT !.pc = "awaitErrReply"]

\* Time passes: the clock reaches the instant t.
Tick(t) ==
  /\ now < t
  /\ now' = t
  /\ UNCHANGED <<spaceVars, variant, threadMap, nextAvailableTime, dmSessions,
                 h, nThreads, threads, sent, privateMessages, polled,
                 createCalls, lastStart, penAt, nfail>>

(* ------------------- messageCreate: the first segment ------------------ *)

\* An event loop that takes up a message only when the handlers of all the
\* messages before it have ended (sensitivity of C20).
ArrivesWhenQuiet(m) ==
  /\ h[m].pc = "idle"
  /\ \A n \in Msgs : n < m => h[n].pc \in {"done", "rejected"}

\* A message of a human author with a non-empty content arrives in slot m
\* (the slots are taken in order).
Arrives(m) ==
  /\ h[m].pc = "idle"
  /\ \A n \in Msgs : n < m => h[n].pc # "idle"

\* The rate check, and the lookup-or-create of the thread up to the first
\* await: the retry notice, openai.beta.threads.create, or sendTyping.
Dispatch(m, msg) ==
  IF rateLimited(now)
    THEN /\ h' = [h EXCEPT ![m] =
                    [msg EXCEPT !.pc = "awaitRetryReply", !.gate = "limited"]]
         /\ UNCHANGED createCalls
    ELSE IF getOpenAiThreadId(msg.conv) = Undefined
      THEN /\ h' = [h EXCEPT ![m] =
                      [msg EXCEPT !.pc = "awaitThread", !.gate = "admitted",
                                  !.calls = @ + 1, !.created = @ + 1]]
           /\ createCalls' = [createCalls EXCEPT ![msg.conv] = @ + 1]
      ELSE /\ h' = [h EXCEPT ![m] =
                      [msg EXCEPT !.pc = "awaitTyping", !.gate = "admitted",
                                  !.tid = getOpenAiThreadId(msg.conv)]]
           /\ UNCHANGED createCalls

\* ionetbot.js, ionetbot_withoutMongoDB.js: a message in a text channel
\* whose name starts with 'private-'.
PrivateMessage(m, c, content) ==
  /\ variant # "dm"
  /\ Arrives(m)
  /\ Dispatch(m, [h[m] EXCEPT !.kind = "private", !.conv = c,
                              !.content = content, !.arrAt = now])
  /\ UNCHANGED <<spaceVars, variant, now, threadMap, nextAvailableTime,
                 dmSessions, nThreads, threads, sent, privateMessages, polled,
                 lastStart, penAt, nfail>>

\* A start command that adds a window to a session that exists instead of
\* overwriting it (sensitivity of C22).
StartSessionExtends(u, content) ==
  /\ variant = "dm"
  /\ isStartCommand("trigger", content)
  /\ dmSessions' = [dmSessions EXCEPT ![u] =
                      IF @ = Undefined THEN sessionEnd(now) ELSE sessionEnd(@)]
  /\ lastStart' = [lastStart EXCEPT ![u] = now]
  /\ UNCHANGED <<spaceVars, variant, now, threadMap, nextAvailableTime,
                 h, nThreads, threads, sent, privateMessages, polled,
                 createCalls, penAt, nfail>>

\* ionetbot_test_dm.js: "!create..." in the trigger channel starts (or
\* restarts) the session of its author u; the handler returns at once. The
\* notice to the author is sent without await and changes nothing here.
StartSession(u, content) ==
  /\ variant = "dm"
  /\ isStartCommand("trigger", content)
  /\ dmSessions' = [dmSessions EXCEPT ![u] = sessionEnd(now)]
  /\ lastStart' = [lastStart EXCEPT ![u] = now]
  /\ UNCHANGED <<spaceVars, variant, now, threadMap, nextAvailableTime,
                 h, nThreads, threads, sent, privateMessages, polled,
                 createCalls, penAt, nfail>>

\* ionetbot_test_dm.js: a message in the DM channel of user u. Without a
\* live session the expiry notice is sent (not awaited) and the handler
\* returns; otherwise the message goes to the rate check.
DmMessage(m, u, content, ok) ==
  /\ variant = "dm"
  /\ Arrives(m)
  /\ ~isStartCommand("dm", content)
  /\ LET msg == [h[m] EXCEPT !.kind = "dm", !.conv = u, !.content = content,
                             !.arrAt = now]
     IN IF sessionRefused(u, now)
          THEN /\ Outcome(ok)
               /\ h' = [h EXCEPT ![m] =
                          [msg EXCEPT !.pc = "done", !.gate = "expired"]]
               /\ sent' = [sent EXCEPT ![m] =
                             IF ok THEN Append(@, Notice("session_expired"))
                                   ELSE @]
               /\ UNCHANGED createCalls
          ELSE /\ ok
               /\ Dispatch(m, msg)
               /\ UNCHANGED <<sent, nfail>>
  /\ UNCHANGED <<spaceVars, variant, now, threadMap, nextAvailableTime,
                 dmSessions, nThreads, threads, privateMessages, polled,
                 lastStart, penAt>>

\* ionetbot_test_dm.js: a message in the DM channel of user u, from the top
\* of the handler: the test of the start command comes first and would
\* start a session and return; a message that fails it goes to the DM branch.
DirectMessage(m, u, content, ok) ==
  IF isStartCommand("dm", content)
    THEN /\ variant = "dm"
         /\ Arrives(m)
         /\ ok
         /\ dmSessions' = [dmSessions EXCEPT ![u] = sessionEnd(now)]
         /\ lastStart' = [lastStart EXCEPT ![u] = now]
         /\ h' = [h EXCEPT ![m] =
                    [@ EXCEPT !.pc = "done", !.kind = "dm", !.conv = u,
                              !.content = content, !.arrAt = now,
                              !.gate = "started"]]
         /\ UNCHANGED <<spaceVars, variant, now, threadMap, nextAvailableTime,
                        nThreads, threads, sent, privateMessages, polled,
                        createCalls, penAt, nfail>>
    ELSE DmMessage(m, u, content, ok)

\* A message that matches no branch of the handler (another channel; in the
\* DM variant also the trigger channel without the command): nothing is done.
OtherMessage(m, k, content) ==
  /\ Arrives(m)
  /\ k \in (IF variant = "dm" THEN {"trigger", "other"} ELSE {"other"})
  /\ ~(variant = "dm" /\ isStartCommand(k, content))
  /\ h' = [h EXCEPT ![m] = [@ EXCEPT !.pc = "done", !.kind = k,
                                      !.content = content, !.arrAt = now,
                                      !.gate = "ignored"]]
  /\ UNCHANGED <<spaceVars, variant, now, threadMap, nextAvailableTime,
                 dmSessions, nThreads, threads, sent, privateMessages, polled,
                 createCalls, lastStart, penAt, nfail>>

\* A retry notice after which the handler does not return but goes on to
\* create the thread (sensitivity of C12).
RetryReplyFallsThrough(m, ok) ==
  /\ h[m].pc = "awaitRetryReply"
  /\ Outcome(ok)
  /\ h' = [h EXCEPT ![m] = [@ EXCEPT !.pc = "awaitThread", !.calls = @ + 1,
                                      !.created = @ + 1]]
  /\ createCalls' = [createCalls EXCEPT ![h[m].conv] = @ + 1]
  /\ sent' = [sent EXCEPT ![m] = Append(@, Notice("retry_later"))]
  /\ UNCHANGED <<spaceVars, variant, now, threadMap, nextAvailableTime,
                 dmSessions, nThreads, threads, privateMessages, polled,
                 lastStart, penAt>>

\* message.reply('Please wait a moment ...') returns; it is outside the try
\* block, so an error rejects the handler.
RetryReplyReturn(m, ok) ==
  /\ h[m].pc = "awaitRetryReply"
  /\ Outcome(ok)
  /\ h' = [h EXCEPT ![m].pc = IF ok THEN "done" ELSE "rejected"]
  /\ sent' = [sent EXCEPT ![m] =
                IF ok THEN Append(@, Notice("retry_later")) ELSE @]
  /\ UNCHANGED <<spaceVars, variant, now, threadMap, nextAvailableTime,
                 dmSessions, nThreads, threads, privateMessages, polled,
                 createCalls, lastStart, penAt>>

\* openai.beta.threads.create returns: the id is bound to the conversation
\* with addThreadToMap and the try block is entered with sendTyping. The
\* call is outside the try block, so an error rejects the handler.
ThreadReturn(m, ok) ==
  /\ h[m].pc = "awaitThread"
  /\ Outcome(ok)
  /\ IF ok
       THEN /\ nThreads' = nThreads + 1
            /\ threadMap' = addThreadToMap(h[m].conv, nThreads + 1)
            /\ h' = [h EXCEPT ![m] =
                       [@ EXCEPT !.pc = "awaitTyping", !.tid = nThreads + 1]]
       ELSE /\ h' = [h EXCEPT ![m].pc = "rejected"]
            /\ UNCHANGED <<nThreads, threadMap>>
  /\ UNCHANGED <<spaceVars, variant, now, nextAvailableTime,
                 dmSessions, threads, sent, privateMessages, polled,
                 createCalls, lastStart, penAt>>

(* --------------------- messageCreate: the try block -------------------- *)

\* message.channel.sendTyping returns: addMessage is called.
TypingReturn(m, ok) ==
  /\ h[m].pc = "awaitTyping"
  /\ Outcome(ok)
  /\ h' = [h EXCEPT ![m] =
             IF ok THEN [@ EXCEPT !.pc = "awaitAdd", !.calls = @ + 1]
                   ELSE Caught(m)]
  /\ UNCHANGED <<spaceVars, variant, now, threadMap, nextAvailableTime,
                 dmSessions, nThreads, threads, sent, privateMessages, polled,
                 createCalls, lastStart, penAt>>

\* addMessage returns: the user's message is in the thread, and
\* openai.beta.threads.runs.create is called.
AddReturn(m, ok) ==
  /\ h[m].pc = "awaitAdd"
  /\ Outcome(ok)
  /\ IF ok
       THEN /\ threads' = [threads EXCEPT ![h[m].tid] =
                             Append(@, [role |-> "user", of |-> m,
                                        text |-> h[m].content])]
            /\ h' = [h EXCEPT ![m] =
                       [@ EXCEPT !.pc = "awaitRun", !.calls = @ + 1]]
       ELSE /\ h' = [h EXCEPT ![m] = Caught(m)]
            /\ UNCHANGED threads
  /\ UNCHANGED <<spaceVars, variant, now, threadMap, nextAvailableTime,
                 dmSessions, nThreads, sent, privateMessages, polled,
                 createCalls, lastStart, penAt>>

\* runs.create returns: statusCheckLoop is entered and retrieves the run.
RunReturn(m, ok) ==
  /\ h[m].pc = "awaitRun"
  /\ Outcome(ok)
  /\ h' = [h EXCEPT ![m] =
             IF ok THEN [@ EXCEPT !.pc = "awaitRetrieve", !.polls = @ + 1,
                                  !.calls = @ + 1]
                   ELSE Caught(m)]
  /\ UNCHANGED <<spaceVars, variant, now, threadMap, nextAvailableTime,
                 dmSessions, nThreads, threads, sent, privateMessages, polled,
                 createCalls, lastStart, penAt>>

\* A handler that lists the messages and replies on every status other
\* than 'failed' (sensitivity of C21).
AfterLoopRepliesUnlessFailed(rec, st) ==
  IF st = "failed"
    THEN [rec EXCEPT !.pc = "awaitFailReply"]
    ELSE [rec EXCEPT !.pc = "awaitList", !.calls = @ + 1]

\* What the handler does with the status statusCheckLoop returned: on
\* 'failed' the failure notice is sent, on 'completed' the messages of the
\* thread are listed, otherwise the handler ends.
AfterLoop(rec, st) ==
  IF st = "failed"
    THEN [rec EXCEPT !.pc = "awaitFailReply"]
    ELSE IF st = "completed"
      THEN [rec EXCEPT !.pc = "awaitList", !.calls = @ + 1]
      ELSE [rec EXCEPT !.pc = "done"]

\* statusCheckLoop: runs.retrieve returns the status st. A non-terminal
\* status starts sleep(1000); a terminal one is returned to the handler. A
\* run the backend reports completed has put its assistant message (txt)
\* into the thread. An error is rethrown to the handler's catch.
statusCheckLoop(m, ok, st, txt) ==
  /\ h[m].pc = "awaitRetrieve"
  /\ Outcome(ok)
  /\ IF ok
       THEN /\ polled' = [polled EXCEPT ![m] = Append(@, st)]
            /\ threads' = IF st = "completed"
                            THEN [threads EXCEPT ![h[m].tid] =
                                    Append(@, [role |-> "assistant", of |-> m,
                                               text |-> txt])]
                            ELSE threads
            /\ h' = [h EXCEPT ![m] =
                       IF ~isTerminal(st)
                         THEN [@ EXCEPT !.pc = "sleeping", !.sleeps = @ + 1]
                         ELSE AfterLoop([@ EXCEPT !.status = st,
                                            !.failedAt = IF st = "failed"
                                                           THEN now ELSE @],
                                        st)]
       ELSE /\ h' = [h EXCEPT ![m] = Caught(m)]
            /\ UNCHANGED <<polled, threads>>
  /\ UNCHANGED <<spaceVars, variant, now, threadMap, nextAvailableTime,
                 dmSessions, nThreads, sent, privateMessages, createCalls,
                 lastStart, penAt>>

\* A sleep whose timer never leads back to the retrieval (sensitivity of C13).
SleepStuck(m) ==
  /\ h[m].pc = "sleeping"
  /\ UNCHANGED <<spaceVars, dispVars>>

\* statusCheckLoop: sleep(1000) is over, the loop retrieves the run again.
SleepReturn(m) ==
  /\ h[m].pc = "sleeping"
  /\ h' = [h EXCEPT ![m] =
             [@ EXCEPT !.pc = "awaitRetrieve", !.polls = @ + 1,
                       !.calls = @ + 1]]
  /\ UNCHANGED <<spaceVars, variant, now, threadMap, nextAvailableTime,
                 dmSessions, nThreads, threads, sent, privateMessages, polled,
                 createCalls, lastStart, penAt, nfail>>

\* failed: message.reply(failure notice) returns; the run is retrieved once
\* more for its last_error.
FailReplyReturn(m, ok) ==
  /\ h[m].pc = "awaitFailReply"
  /\ Outcome(ok)
  /\ h' = [h EXCEPT ![m] =
             IF ok THEN [@ EXCEPT !.pc = "awaitDetails", !.calls = @ + 1]
                   ELSE Caught(m)]
  /\ sent' = [sent EXCEPT ![m] =
                IF ok THEN Append(@, Notice("run_failed")) ELSE @]
  /\ UNCHANGED <<spaceVars, variant, now, threadMap, nextAvailableTime,
                 dmSessions, nThreads, threads, privateMessages, polled,
                 createCalls, lastStart, penAt>>

\* A failed branch that moves the rate gate whatever the error code is
\* (sensitivity of C23).
DetailsReturnAnyCode(m, ok, code) ==
  /\ h[m].pc = "awaitDetails"
  /\ Outcome(ok)
  /\ IF ok
       THEN /\ nextAvailableTime' = penalize(m)
            /\ penAt' = now
            /\ h' = [h EXCEPT ![m] =
                       [@ EXCEPT !.pc = "done", !.penalized = TRUE]]
       ELSE /\ h' = [h EXCEPT ![m] = Caught(m)]
            /\ UNCHANGED <<nextAvailableTime, penAt>>
  /\ UNCHANGED <<spaceVars, variant, now, threadMap, dmSessions,
                 nThreads, threads, sent, privateMessages, polled,
                 createCalls, lastStart>>

\* failed: the failure detail returns; with last_error.code
\* 'rate_limit_exceeded' the rate gate is moved.
DetailsReturn(m, ok, code) ==
  /\ h[m].pc = "awaitDetails"
  /\ Outcome(ok)
  /\ IF ok /\ code = "rate_limit_exceeded"
       THEN /\ nextAvailableTime' = penalize(m)
            /\ penAt' = now
            /\ h' = [h EXCEPT ![m] =
                       [@ EXCEPT !.pc = "done", !.penalized = TRUE]]
       ELSE /\ h' = [h EXCEPT ![m] =
                       IF ok THEN [@ EXCEPT !.pc = "done"] ELSE Caught(m)]
            /\ UNCHANGED <<nextAvailableTime, penAt>>
  /\ UNCHANGED <<spaceVars, variant, now, threadMap, dmSessions,
                 nThreads, threads, sent, privateMessages, polled,
                 createCalls, lastStart>>

\* completed: messages.list returns; the text of the newest message, cut to
\* 1999 characters, is sent as the reply.
ListReturn(m, ok) ==
  /\ h[m].pc = "awaitList"
  /\ Outcome(ok)
  /\ h' = [h EXCEPT ![m] =
             IF ~ok THEN Caught(m)
             ELSE IF Len(listMessages(h[m].tid)) > 0
               THEN [@ EXCEPT !.pc = "awaitReply",
                              !.resp = substring(listMessages(h[m].tid)[1].text,
                                                 0, ReplyCharLimit)]
               ELSE [@ EXCEPT !.pc = "done"]]
  /\ UNCHANGED <<spaceVars, variant, now, threadMap, nextAvailableTime,
                 dmSessions, nThreads, threads, sent, privateMessages, polled,
                 createCalls, lastStart, penAt>>

\* A reply after which a failing insert is not swallowed but reaches the
\* catch of the handler (sensitivity of C16).
ReplyReturnDbThrows(m, ok, dbOk) ==
  /\ h[m].pc = "awaitReply"
  /\ Outcome(ok)
  /\ (variant # "mongo" \/ ~ok) => dbOk
  /\ h' = [h EXCEPT ![m] = IF ok /\ dbOk THEN [@ EXCEPT !.pc = "done"]
                                         ELSE Caught(m)]
  /\ sent' = [sent EXCEPT ![m] = IF ok THEN Append(@, Reply(h[m].resp)) ELSE @]
  /\ privateMessages' = IF ok /\ variant = "mongo"
                          THEN withDb(privateMessages, m, dbOk)
                          ELSE privateMessages
  /\ dbFailed' = (dbFailed \/ ~dbOk)
  /\ UNCHANGED <<chan, greeted, channelsMap, cpc, tpc, presses, closing,
                 events, channelDeletions, deleteCalls, faults>>
  /\ UNCHANGED <<variant, now, threadMap, nextAvailableTime,
                 dmSessions, nThreads, threads, polled, createCalls,
                 lastStart, penAt>>

\* completed: message.reply(response) returns; ionetbot.js then writes the
\* interaction record through withDb (not awaited).
ReplyReturn(m, ok, dbOk) ==
  /\ h[m].pc = "awaitReply"
  /\ Outcome(ok)
  /\ (variant # "mongo" \/ ~ok) => dbOk
  /\ h' = [h EXCEPT ![m] = IF ok THEN [@ EXCEPT !.pc = "done"] ELSE Caught(m)]
  /\ sent' = [sent EXCEPT ![m] = IF ok THEN Append(@, Reply(h[m].resp)) ELSE @]
  /\ privateMessages' = IF ok /\ variant = "mongo"
                          THEN withDb(privateMessages, m, dbOk)
                          ELSE privateMessages
  /\ dbFailed' = (dbFailed \/ ~dbOk)
  /\ UNCHANGED <<chan, greeted, channelsMap, cpc, tpc, presses, closing,
                 events, channelDeletions, deleteCalls, faults>>
  /\ UNCHANGED <<variant, now, threadMap, nextAvailableTime,
                 dmSessions, nThreads, threads, polled, createCalls,
                 lastStart, penAt>>

\* catch: message.reply(processing-error notice) returns; an error here
\* rejects the handler.
ErrReplyReturn(m, ok) ==
  /\ h[m].pc = "awaitErrReply"
  /\ Outcome(ok)
  /\ h' = [h EXCEPT ![m].pc = IF ok THEN "done" ELSE "rejected"]
  /\ sent' = [sent EXCEPT ![m] =
                IF ok THEN Append(@, Notice("processing_error")) ELSE @]
  /\ UNCHANGED <<spaceVars, variant, now, threadMap, nextAvailableTime,
                 dmSessions, nThreads, threads, privateMessages, polled,
                 createCalls, lastStart, penAt>>

(* --------------------------- specifications ---------------------------- *)

\* The instants at which something happens: around the end of a penalty
\* applied at 0, and around the end of a session started at 0.
Instants == {0, Penalty - 1, Penalty}
DmInstants == {0, SessionWindow - 1, SessionWindow, SessionWindow + 1}
FlowInstants == {0, 100, 700000}

\* The statuses the backend reports and the error codes of a failed run.
Statuses == {"queued", "in_progress"} \cup terminalStates
ErrorCodes == {"rate_limit_exceeded", "server_error"}

\* The statuses the backend may answer the next retrieval of m's run with,
\* when it answers with the offered ones, and at most w times with a
\* non-terminal one.
Answers(m, offered, w) ==
  IF h[m].sleeps < w THEN offered ELSE offered \cap terminalStates

\* The texts of the assistant, and of message m of a user.
ShortTexts == {<<"o", "k">>}
LongTexts == {TextOfLen(n) : n \in {1, ReplyCharLimit, ReplyCharLimit + 1, 5000}}
UserText(m) == <<"u", Letters[((m - 1) % Len(Letters)) + 1]>>

\* The steps a handler takes from the return of the thread creation to the
\* end of the try block (the end of a sleep apart), with the outcomes of its calls (oks) and of its database operation
\* (dbOks), the statuses of its run (non-terminal ones at most w times) and
\* the texts of the assistant drawn from the given sets.
TrySteps(m, oks, dbOks, offered, w, texts) ==
  \/ \E ok \in oks : ThreadReturn(m, ok)
  \/ \E ok \in oks : TypingReturn(m, ok)
  \/ \E ok \in oks : AddReturn(m, ok)
  \/ \E ok \in oks : RunReturn(m, ok)
  \/ \E ok \in oks, st \in Answers(m, offered, w), txt \in texts :
        statusCheckLoop(m, ok, st, txt)
  \/ \E ok \in oks : FailReplyReturn(m, ok)
  \/ \E ok \in oks, code \in ErrorCodes : DetailsReturn(m, ok, code)
  \/ \E ok \in oks : ListReturn(m, ok)
  \/ \E ok \in oks, dbOk \in dbOks : ReplyReturn(m, ok, dbOk)

\* Every handler before m has ended.
Sequential(m) == \A n \in Msgs : n < m => h[n].pc \in {"done", "rejected"}

\* The continuation of the handler of m at the return of the call or of the
\* sleep it waits for, every call returning normally.
Proceeds(m) ==
  \/ RetryReplyReturn(m, TRUE)
  \/ SleepReturn(m)
  \/ TrySteps(m, {TRUE}, {TRUE}, {"in_progress", "failed", "completed"},
              MaxWaits, ShortTexts)

\* ionetbot.js: concurrent messages in private channels, every call
\* returning normally.
Init == SpaceInit /\ DispInit("mongo")

Next ==
  \/ \E t \in Instants : Tick(t)
  \/ \E m \in Msgs, c \in Convs : PrivateMessage(m, c, UserText(m))
  \/ \E m \in Msgs : RetryReplyReturn(m, TRUE)
  \/ \E m \in Msgs : SleepReturn(m)
  \/ \E m \in Msgs :
        TrySteps(m, {TRUE}, {TRUE}, {"in_progress", "failed", "completed"},
                 MaxWaits, ShortTexts)

Spec == Init /\ [][Next]_vars

\* ionetbot_test_dm.js: session starts at any of the given instants, and
\* direct messages handled one after the other, every call returning
\* normally and every run ending at its first retrieval.
InitDM == SpaceInit /\ DispInit("dm")

StepDM(instants) ==
  \/ \E t \in instants : Tick(t)
  \/ \E u \in Convs : StartSession(u, CreateCmd)
  \/ \E m \in Msgs, u \in Convs, ok \in BOOLEAN :
        Sequential(m) /\ DmMessage(m, u, Hello, ok)
  \/ \E m \in Msgs : Sequential(m) /\ OtherMessage(m, "other", CreateCmd)
  \/ \E m \in Msgs : Sequential(m) /\ OtherMessage(m, "trigger", Hello)
  \/ \E m \in Msgs : RetryReplyReturn(m, TRUE)
  \/ \E m \in Msgs :
        TrySteps(m, {TRUE}, {TRUE}, {"failed", "completed"}, 0, ShortTexts)

\* Around the end of a session started at 0.
NextDM == StepDM(DmInstants)

SpecDM == InitDM /\ [][NextDM]_vars

\* A message shortly after the start of a session and one long after it.
NextFlow == StepDM(FlowInstants)

SpecFlow == InitDM /\ [][NextFlow]_vars

\* ionetbot_test_dm.js: as above, with direct messages that carry the text
\* of the start command.
NextTrigger ==
  \/ StepDM(FlowInstants)
  \/ \E m \in Msgs, u \in Convs, ok \in BOOLEAN :
        Sequential(m) /\ DirectMessage(m, u, CreateCmd, ok)

SpecTrigger == InitDM /\ [][NextTrigger]_vars

\* ionetbot.js: one message in a private channel or elsewhere, with calls
\* and database operations that fail, every status and long texts.
NextOne ==
  \/ \E c \in Convs : PrivateMessage(1, c, UserText(1))
  \/ OtherMessage(1, "other", UserText(1))
  \/ \E ok \in BOOLEAN : ErrReplyReturn(1, ok)
  \/ SleepReturn(1)
  \/ TrySteps(1, BOOLEAN, BOOLEAN, Statuses, MaxPollWaits, LongTexts)

SpecOne == Init /\ [][NextOne]_vars

\* The same, when every pending call eventually returns and every timer
\* eventually fires.
SpecOneFair == Init /\ [][NextOne]_vars /\ WF_vars(NextOne)

\* ionetbot.js: the events of the private channels.
SpaceNext ==
  \E s \in Spaces :
    \/ CreateCommand(s)
    \/ \E ok \in BOOLEAN : CreateReturn(s, ok)
    \/ \E ok \in BOOLEAN : GreetReturn(s, ok)
    \/ \E ok \in BOOLEAN, dbOk \in BOOLEAN : ConfirmReturn(s, ok, dbOk)
    \/ CreateFailReplyReturn(s)
    \/ TimerFire(s)
    \/ \E r \in {"ok", "null", "error"} : FetchReturn(s, r)
    \/ \E ok \in BOOLEAN, dbOk \in BOOLEAN : TimerDeleteReturn(s, ok, dbOk)
    \/ ClosePress(s)
    \/ \E ok \in BOOLEAN : CloseDeleteReturn(s, ok)

InitSpace == SpaceInit /\ DispInit("mongo")

SpecSpace == InitSpace /\ [][SpaceNext]_vars

\* ionetbot.js: one message and the events of the private channels, with
\* calls and database operations that fail.
NextAll == NextOne \/ SpaceNext

SpecAll == Init /\ [][NextAll]_vars

\* ionetbot.js: messages in private channels handled one after the other,
\* with calls that fail and runs that end in any terminal status at their
\* first retrieval, and the events of the private channels.
GateInstants == {0, Penalty}

NextGate ==
  \/ \E t \in GateInstants : Tick(t)
  \/ \E m \in Msgs, c \in Convs :
        Sequential(m) /\ PrivateMessage(m, c, UserText(m))
  \/ \E m \in Msgs, ok \in BOOLEAN : RetryReplyReturn(m, ok)
  \/ \E m \in Msgs, ok \in BOOLEAN : ErrReplyReturn(m, ok)
  \/ \E m \in Msgs :
        TrySteps(m, BOOLEAN, BOOLEAN, terminalStates, 0, ShortTexts)
  \/ SpaceNext

SpecGate == Init /\ [][NextGate]_vars

(* ----------------- claims on the private channels ---------------------- *)

\* C1: for every private channel, when no platform call fails on a live
\* channel and the button is activated at most once, the timer callback and
\* the close_ticket handler together call channel.delete() at most once, and
\* exactly once when the channel ends deleted, whichever of the two runs
\* first.
C1_DeleteCalledExactlyOnce ==
  \A s \in Spaces :
    (~faults /\ presses[s] <= 1) =>
      /\ deleteCalls[s] <= 1
      /\ chan[s] = "deleted" => deleteCalls[s] = 1

\* C2: every channel that was deleted, by the timer or by the button, has
\* exactly one 'Channel Deletion' record (no persistence operation and no
\* platform call on a live channel having failed).
C2_OneDeletionRecord ==
  \A s \in Spaces :
    (chan[s] = "deleted" /\ ~dbFailed /\ ~faults) => channelDeletions[s] = 1

(* ------------------------ claims on the dispatch ----------------------- *)

\* C3: for every conversation, whatever the interleaving of the message
\* handlers, openai.beta.threads.create is called at most once for it (and
\* its binding in threadMap is then never overwritten).
C3_ThreadCreatedAtMostOnce ==
  \A c \in Convs : createCalls[c] <= 1

\* C4: no step assigns nextAvailableTime a value smaller than its current
\* one, whatever the order in which failed runs of different conversations
\* apply their penalties (the clock does not go backwards).
C4_GateNeverDecreases ==
  [][nextAvailableTime' >= nextAvailableTime]_vars

\* C4, its case: two handlers in different conversations have both applied
\* a penalty, the second one at a later instant than the first.
C4_TwoPenalties ==
  \E m, n \in Msgs :
    /\ h[m].penalized /\ h[n].penalized
    /\ h[m].conv # h[n].conv
    /\ nextAvailableTime > Penalty

\* C5: a message that reaches the rate check is denied (and gets the retry
\* notice) exactly when a penalty was applied at some instant t and it
\* arrives at an instant now with t <= now < t + 20000, t being the latest
\* penalty; this is so whichever conversation the message and the penalty
\* belong to.
C5_DeniedExactlyInPenaltyWindow ==
  [][\A m \in Msgs :
       (h[m].pc = "idle" /\ h'[m].gate \in {"limited", "admitted"}) =>
         /\ (h'[m].gate = "limited") <=>
              (penAt >= 0 /\ penAt <= now /\ now < penAt + Penalty)
         /\ (h'[m].gate = "limited") <=> (h'[m].pc = "awaitRetryReply")]_vars

\* C5, its case: a message arriving at the last instant of the penalty that
\* a message of another conversation caused has been denied and has received
\* the retry notice.
C5_DeniedInOtherConversation ==
  \E m, n \in Msgs :
    /\ h[n].penalized
    /\ h[m].conv # h[n].conv
    /\ h[m].gate = "limited"
    /\ h[m].arrAt = penAt + Penalty - 1
    /\ sent[m] = <<Notice("retry_later")>>

\* C6: in the DM variant a direct message of user u arriving at the instant
\* now passes the session gate if and only if u has started a session and
\* now <= (instant of u's latest start command in the trigger channel) +
\* 600000; a user who never started one is refused.
C6_AdmittedExactlyInSession ==
  [][\A m \in Msgs :
       (h[m].pc = "idle" /\ h'[m].kind = "dm") =>
         ((h'[m].gate # "expired") <=>
            /\ lastStart[h'[m].conv] >= 0
            /\ now <= lastStart[h'[m].conv] + SessionWindow)]_vars

\* C6, its case: of two messages of the same user, whose only session
\* started at 0, the one arriving at exactly 600000 was admitted and the
\* one arriving at 600001 was refused.
C6_LastInstantOfSession ==
  \E m, n \in Msgs :
    /\ h[m].kind = "dm" /\ h[n].kind = "dm"
    /\ h[m].conv = h[n].conv
    /\ lastStart[h[m].conv] = 0
    /\ h[m].arrAt = SessionWindow /\ h[m].gate = "admitted"
    /\ h[n].arrAt = SessionWindow + 1 /\ h[n].gate = "expired"

\* C7: statusCheckLoop retrieves the status until the first terminal one
\* and returns that one: when it has returned, the status it returned is
\* the last one retrieved and is terminal, every status retrieved before is
\* non-terminal, and for k + 1 retrievals there were exactly k sleeps; no
\* retrieval ever follows a terminal status.
C7_ReturnsFirstTerminalStatus ==
  \A m \in Msgs :
    LET p == polled[m] IN
    /\ \A i \in 1..(Len(p) - 1) : p[i] \notin terminalStates
    /\ h[m].status # "none" =>
         /\ Len(p) >= 1
         /\ h[m].status = p[Len(p)]
         /\ h[m].status \in terminalStates
         /\ h[m].polls = Len(p)
         /\ h[m].sleeps = Len(p) - 1

\* C7, its case: the loop has returned a terminal status at the third
\* retrieval, after two sleeps.
C7_TerminalAfterTwoSleeps ==
  \E m \in Msgs :
    /\ h[m].status \in terminalStates
    /\ Len(polled[m]) = 3
    /\ h[m].sleeps = 2

\* C8, as stated: when the failure detail of a failed run carries
\* rate_limit_exceeded, nextAvailableTime is set to (the instant at which
\* statusCheckLoop retrieved the status 'failed') + 20000, however much time
\* passes in the failure notice and the retrieval of the failure detail.
C8_PenaltyFromFailedRetrieval ==
  [][\A m \in Msgs :
       (~h[m].penalized /\ h'[m].penalized) =>
         nextAvailableTime' = h[m].failedAt + Penalty]_vars

\* C8: when the failure detail of a failed run carries rate_limit_exceeded,
\* nextAvailableTime is set to (the instant at which the retrieval of the
\* failure detail returned) + 20000; that instant is not before the one at
\* which the status 'failed' was retrieved, and is later by the time the
\* failure notice and the retrieval of the failure detail took.
C8_PenaltyFromDetailReturn ==
  [][\A m \in Msgs :
       (~h[m].penalized /\ h'[m].penalized) =>
         /\ nextAvailableTime' = now + Penalty
         /\ now >= h[m].failedAt
         /\ h[m].failedAt >= 0
         /\ h[m].status = "failed"]_vars

\* C8, its case: the only penalty was applied at a later instant than the
\* one at which the status 'failed' of that run was retrieved.
C8_TimePassedBeforePenalty ==
  \E m \in Msgs :
    /\ h[m].penalized
    /\ \A n \in Msgs \ {m} : ~h[n].penalized
    /\ h[m].failedAt >= 0
    /\ penAt > h[m].failedAt
    /\ nextAvailableTime = penAt + Penalty

\* The DM flow of C9, with the number of interaction records a completed
\* and answered message is to have: a session started at t0 ends at
\* t0 + 600000; a message of its user at t0 + 100 passes the session gate,
\* its conversation gets exactly one thread, and when its run has completed
\* the reply (the newest text cut to 1999 characters) is the one thing sent
\* and there are `records` interaction records; a message of that user at
\* t0 + 700000 is refused with the expiry notice and makes no backend call.
DmFlow(records) ==
  /\ \A u \in Convs :
       lastStart[u] >= 0 => dmSessions[u] = lastStart[u] + SessionWindow
  /\ \A m \in Msgs :
       (h[m].kind = "dm" /\ lastStart[h[m].conv] >= 0) =>
         /\ h[m].arrAt = lastStart[h[m].conv] + 100 =>
              /\ h[m].gate # "expired"
              /\ createCalls[h[m].conv] <= 1
              /\ (h[m].gate = "admitted" /\ h[m].pc # "awaitThread") =>
                   /\ createCalls[h[m].conv] = 1
                   /\ h[m].tid = threadMap[h[m].conv]
              /\ (h[m].status = "completed" /\ h[m].pc = "done") =>
                   /\ Len(sent[m]) = 1
                   /\ sent[m][1].kind = "reply"
                   /\ Len(sent[m][1].text) <= ReplyCharLimit
                   /\ privateMessages[m] = records
         /\ h[m].arrAt = lastStart[h[m].conv] + 700000 =>
              /\ h[m].gate = "expired"
              /\ h[m].pc = "done"
              /\ h[m].calls = 0
              /\ sent[m] = <<Notice("session_expired")>>
                   \/ (nfail > 0 /\ sent[m] = <<>>)

\* C9, as stated: the DM flow, in which the interaction of the answered
\* message is recorded.
C9_DmFlowRecorded == DmFlow(1)

\* C9: the DM flow, in which no interaction record is written (the DM
\* variant has no persistence).
C9_DmFlowUnrecorded == DmFlow(0)

\* C9, its case: after a start at 0, the user's message at 100 was admitted,
\* created the one thread, was answered on its completed run and left no
\* record, and the user's message at 700000 was refused with the expiry
\* notice without any backend call.
C9_HelloThenExpired ==
  \E m, n \in Msgs :
    /\ h[m].kind = "dm" /\ h[n].kind = "dm"
    /\ h[m].conv = h[n].conv
    /\ lastStart[h[m].conv] = 0
    /\ h[m].arrAt = 100 /\ h[m].content = Hello
    /\ h[m].gate = "admitted" /\ h[m].created = 1
    /\ h[m].status = "completed" /\ h[m].pc = "done"
    /\ sent[m] = <<Reply(<<"o", "k">>)>>
    /\ privateMessages[m] = 0
    /\ h[n].arrAt = 700000 /\ h[n].gate = "expired" /\ h[n].calls = 0
    /\ sent[n] = <<Notice("session_expired")>>

\* C10: the reply sent for a completed run is the text of the newest
\* message of the thread cut to its first 1999 characters: a text of more
\* than 1999 characters is sent as its prefix of 1999 characters, a text of
\* at most 1999 characters is sent unchanged.
C10_ReplyIsPrefixOfNewest ==
  \A m \in Msgs :
    \A i \in 1..Len(sent[m]) :
      sent[m][i].kind = "reply" =>
        LET newest == listMessages(h[m].tid)[1].text
            n == IF Len(newest) > ReplyCharLimit THEN ReplyCharLimit
                                                 ELSE Len(newest)
        IN /\ Len(sent[m][i].text) = n
           /\ \A j \in 1..n : sent[m][i].text[j] = newest[j]
           /\ Len(newest) <= ReplyCharLimit => sent[m][i].text = newest

\* C10, its case: a response of 5000 characters has been sent as a reply of
\* 1999 characters.
C10_LongResponseCut ==
  \E m \in Msgs :
    /\ Len(sent[m]) = 1
    /\ sent[m][1].kind = "reply"
    /\ Len(sent[m][1].text) = ReplyCharLimit
    /\ Len(listMessages(h[m].tid)[1].text) = 5000

(* --------------------- claims on the start command --------------------- *)

\* C11, as stated: a message with the start command in a conversation other
\* than the trigger channel, a DM included, changes no session and causes
\* no call to the backend.
C11_StartElsewhereIgnored ==
  \A m \in Msgs :
    (h[m].kind \in {"dm", "other"} /\ startsWith(h[m].content, CreateCmd)) =>
      /\ h[m].gate # "started"
      /\ h[m].calls = 0

\* C11: a message with the start command in a conversation other than the
\* trigger channel creates or changes no session; in a channel that is not
\* a DM nothing at all is done for it, and in a DM it is handled as any
\* direct message: refused with the expiry notice without a live session,
\* passed on to the rate check and the backend with one.
C11_StartElsewhereStartsNothing ==
  [][\A m \in Msgs :
       (/\ h[m].pc = "idle"
        /\ h'[m].kind \in {"dm", "other"}
        /\ startsWith(h'[m].content, CreateCmd)) =>
         /\ dmSessions' = dmSessions
         /\ h'[m].kind = "other" =>
              /\ h'[m].pc = "done"
              /\ h'[m].calls = 0
              /\ sent' = sent
         /\ h'[m].kind = "dm" =>
              /\ (h'[m].gate = "expired") <=> sessionRefused(h'[m].conv, now)
              /\ h'[m].gate \in {"expired", "limited", "admitted"}]_vars

\* C11, its case: the start command written in the DM of a user whose
\* session started at 0 has left the session as it was, and has been
\* answered by the backend.
C11_StartInDmAnswered ==
  \E m \in Msgs :
    /\ h[m].kind = "dm" /\ h[m].content = CreateCmd
    /\ h[m].arrAt = 100
    /\ lastStart[h[m].conv] = 0
    /\ dmSessions[h[m].conv] = SessionWindow
    /\ h[m].gate = "admitted" /\ h[m].status = "completed"
    /\ sent[m] = <<Reply(<<"o", "k">>)>>

(* ------------------------ claims on the rate gate ---------------------- *)

\* C12: a message that arrives at an instant now < nextAvailableTime gets
\* the retry notice and nothing else, and its handler stops: it creates no
\* thread, appends no message to a thread, starts no run, retrieves no
\* status, and its steps leave threadMap, the threads and nextAvailableTime
\* as they are.
C12_DeniedMessageDoesNothing ==
  [][\A m \in Msgs :
       h'[m].gate = "limited" =>
         /\ h'[m].arrAt < nextAvailableTime \/ h'[m] = h[m]
         /\ h'[m].pc \in {"awaitRetryReply", "done"}
         /\ h'[m].calls = 0 /\ h'[m].created = 0 /\ h'[m].polls = 0
         /\ h'[m].tid = Undefined
         /\ polled'[m] = <<>>
         /\ \A t \in Msgs : \A i \in 1..Len(threads'[t]) : threads'[t][i].of # m
         /\ sent'[m] = IF h'[m].pc = "done" THEN <<Notice("retry_later")>>
                                           ELSE <<>>
         /\ h'[m] # h[m] =>
              /\ threadMap' = threadMap
              /\ nextAvailableTime' = nextAvailableTime
              /\ threads' = threads
              /\ nThreads' = nThreads
              /\ createCalls' = createCalls]_vars

\* C12, its case: a message was denied during a penalty, got the retry
\* notice and its handler has ended without any call to the backend, in a
\* conversation that has no thread.
C12_DeniedAndNotified ==
  \E m \in Msgs :
    /\ h[m].gate = "limited" /\ h[m].pc = "done"
    /\ h[m].arrAt < nextAvailableTime
    /\ sent[m] = <<Notice("retry_later")>>
    /\ h[m].calls = 0
    /\ threadMap[h[m].conv] = Undefined

(* ------------------------ claims on the poll loop ---------------------- *)

\* C13: a run whose status is being retrieved, the backend reporting a
\* terminal status after finitely many non-terminal ones, leads to the
\* return of statusCheckLoop with a terminal status, unless a retrieval
\* fails (which goes to the catch); the loop yields one outcome, after which
\* nothing is retrieved for that run; and as long as every status retrieved
\* is non-terminal the loop has yielded no outcome, however many there were.
C13_LoopEndsWithOneOutcome ==
  /\ \A m \in Msgs :
       (h[m].pc = "awaitRetrieve") ~>
         (h[m].status \in terminalStates \/ h[m].pc = "awaitErrReply")
  /\ [][\A m \in Msgs :
          h[m].status # "none" =>
            /\ h'[m].status = h[m].status
            /\ polled'[m] = polled[m]
            /\ h'[m].polls = h[m].polls]_vars
  /\ [](\A m \in Msgs :
          (\A i \in 1..Len(polled[m]) : polled[m][i] \notin terminalStates) =>
            h[m].status = "none")

\* C13, its case: the loop has yielded 'cancelled' after the backend had
\* reported 'queued' and 'in_progress'.
C13_CancelledAfterWaiting ==
  \E m \in Msgs :
    /\ polled[m] = <<"queued", "in_progress", "cancelled">>
    /\ h[m].status = "cancelled"
    /\ h[m].pc = "done"

\* C14: when a retrieval of the status fails, statusCheckLoop makes no
\* further retrieval and no further sleep for that run (the failed retrieval
\* is its last call, after one sleep per status retrieved before), the
\* error reaches the catch of the handler, and the processing-error notice
\* is what the user is sent (nothing, if sending it fails too).
C14_RetrievalFailureStopsLoop ==
  [][\A m \in Msgs :
       (/\ h'[m].polls >= 1
        /\ h'[m].status = "none"
        /\ h'[m].pc \in {"awaitErrReply", "done", "rejected"}) =>
         /\ h'[m].polls = Len(polled'[m]) + 1
         /\ h'[m].sleeps = Len(polled'[m])
         /\ \A i \in 1..Len(polled'[m]) : polled'[m][i] \notin terminalStates
         /\ h[m].pc \in {"awaitRetrieve", "awaitErrReply", "done", "rejected"}
         /\ h[m].pc # "awaitRetrieve" =>
              /\ h'[m].polls = h[m].polls
              /\ h'[m].sleeps = h[m].sleeps
              /\ h'[m].calls = h[m].calls
              /\ polled'[m] = polled[m]
         /\ sent'[m] = IF h'[m].pc = "done"
                         THEN <<Notice("processing_error")>> ELSE <<>>]_vars

\* C14, its case: the second retrieval failed, after one sleep, and the
\* user got the processing-error notice.
C14_SecondRetrievalFailed ==
  \E m \in Msgs :
    /\ h[m].status = "none" /\ h[m].pc = "done"
    /\ h[m].polls = 2 /\ h[m].sleeps = 1
    /\ Len(polled[m]) = 1
    /\ sent[m] = <<Notice("processing_error")>>

(* ------------------------ claims on failing calls ---------------------- *)

\* C15: every failure of a backend call made for an admitted message
\* (threads.create, addMessage, runs.create, the retrievals of the status
\* and of the failure detail, messages.list) is caught in the handler and
\* answered with the processing-error notice: a handler is rejected only
\* when the reply in its catch fails, and a handler that ended after a call
\* failed has sent that notice last.
C15_BackendFailuresCaught ==
  \A m \in Msgs :
    h[m].gate = "admitted" =>
      /\ h[m].pc = "rejected" => h[m].tid # Undefined
      /\ (h[m].pc = "done" /\ nfail > 0) =>
           /\ Len(sent[m]) >= 1
           /\ sent[m][Len(sent[m])] = Notice("processing_error")

\* C15, where it fails: openai.beta.threads.create has thrown for an
\* admitted message; the handler is rejected and nothing was sent.
C15_ThreadCreationEscaped ==
  \E m \in Msgs :
    /\ h[m].gate = "admitted"
    /\ h[m].created = 1 /\ h[m].tid = Undefined
    /\ h[m].pc = "rejected"
    /\ sent[m] = <<>>

\* C16: a persistence operation that fails (creation record, deletion
\* record, interaction record) writes nothing and changes nothing else: the
\* step in which it fails counts no failed call, leaves threadMap and
\* nextAvailableTime as they are, and does to the reply, to the handlers and
\* to channelsMap exactly what it does when the operation succeeds (the
\* reply is delivered and the handler ends; the creation handler ends with
\* its timer set; the timer callback ends with the channel deleted and
\* removed from channelsMap); and an interaction record is written only in
\* the step in which the reply has been delivered.
C16_PersistenceFailureSwallowed ==
  [][/\ (dbFailed' /\ ~dbFailed) =>
          /\ events' = events
          /\ channelDeletions' = channelDeletions
          /\ privateMessages' = privateMessages
          /\ threadMap' = threadMap
          /\ nextAvailableTime' = nextAvailableTime
          /\ nfail' = nfail
          /\ faults' = faults
          /\ \A m \in Msgs :
               h'[m] # h[m] =>
                 /\ h[m].pc = "awaitReply"
                 /\ h'[m] = [h[m] EXCEPT !.pc = "done"]
                 /\ sent'[m] = Append(sent[m], Reply(h[m].resp))
          /\ \A s \in Spaces :
               /\ cpc'[s] # cpc[s] =>
                    /\ cpc'[s] = "done" /\ tpc'[s] = "pending"
                    /\ channelsMap' = channelsMap
               /\ (tpc'[s] # tpc[s] /\ cpc'[s] = cpc[s]) =>
                    /\ tpc[s] = "awaitDelete" /\ tpc'[s] = "done"
                    /\ chan'[s] = "deleted"
                    /\ channelsMap' = channelsMap \ {s}
     /\ \A m \in Msgs :
          privateMessages'[m] # privateMessages[m] =>
            /\ h[m].pc = "awaitReply" /\ h'[m].pc = "done"
            /\ sent'[m] = Append(sent[m], Reply(h[m].resp))]_vars

\* C16, its case: the insert of the interaction record has failed, no call
\* has, and the message has its reply and no record.
C16_ReplyWithoutRecord ==
  \E m \in Msgs :
    /\ dbFailed /\ nfail = 0 /\ ~faults
    /\ h[m].status = "completed" /\ h[m].pc = "done"
    /\ sent[m] = <<Reply(h[m].resp)>>
    /\ privateMessages[m] = 0
    /\ \A s \in Spaces : cpc[s] = "idle"

(* ------------------ claims on the registry of channels ----------------- *)

\* C17: in every reachable state a channel that exists on the platform (was
\* created, and no delete of it has succeeded) is in channelsMap; its id is
\* removed only when the platform deletion has succeeded, on the timer path
\* and on the close_ticket path.
C17_LiveChannelRegistered ==
  \A s \in Spaces : chan[s] = "live" => s \in channelsMap

\* C17, where it fails: the deletion of the timer callback has failed on a
\* channel that still exists, the callback is over, and the id is no longer
\* in channelsMap.
C17_LiveChannelDropped ==
  \E s \in Spaces :
    /\ chan[s] = "live"
    /\ tpc[s] = "done"
    /\ presses[s] = 0
    /\ s \notin channelsMap

\* C18: a channel that exists on the platform always has its deletion
\* ahead of it: its creation handler has still to set the timer, or the
\* timer is pending or its callback running, or a close_ticket deletion is
\* in progress; also when the greeting or the confirmation reply failed
\* after the channel was created.
C18_LiveChannelHasTimer ==
  \A s \in Spaces :
    chan[s] = "live" =>
      \/ cpc[s] \in {"awaitGreet", "awaitConfirm"}
      \/ tpc[s] \in {"pending", "awaitFetch", "awaitDelete"}
      \/ closing[s] > 0

\* C18, where it fails: the greeting failed after the channel was created;
\* the handler has ended in its catch, no timer was ever set, and the
\* channel exists.
C18_CreatedWithoutTimer ==
  \E s \in Spaces :
    /\ chan[s] = "live"
    /\ ~greeted[s]
    /\ cpc[s] = "done"
    /\ tpc[s] = "unset"
    /\ closing[s] = 0

\* C19: close triggers for a channel that is no longer in channelsMap do
\* nothing: the timer callback that runs then ends at once, without fetch,
\* without delete and without record, and a close_ticket activation then
\* calls no delete.
C19_CloseOfUnregisteredIsNoOp ==
  [][\A s \in Spaces :
       s \notin channelsMap =>
         /\ (tpc[s] = "pending" /\ tpc'[s] # "pending") =>
              /\ tpc'[s] = "done"
              /\ deleteCalls' = deleteCalls
              /\ channelDeletions' = channelDeletions
              /\ events' = events
              /\ chan' = chan
              /\ channelsMap' = channelsMap
         /\ presses'[s] # presses[s] =>
              /\ deleteCalls' = deleteCalls
              /\ closing' = closing
              /\ chan' = chan
              /\ channelsMap' = channelsMap
         /\ deleteCalls'[s] = deleteCalls[s] \/ tpc[s] = "awaitFetch"]_vars

\* C19, its case: the channel was closed with the button, by the one delete
\* call there was, and the timer callback has run after that and ended
\* without a record.
C19_TimerAfterUserClose ==
  \E s \in Spaces :
    /\ chan[s] = "deleted"
    /\ presses[s] = 1 /\ closing[s] = 0
    /\ tpc[s] = "done"
    /\ deleteCalls[s] = 1
    /\ channelDeletions[s] = 0
    /\ ~dbFailed /\ ~faults
    /\ s \notin channelsMap

(* ------------------------ claims on concurrency ------------------------ *)

\* C20: while the run of one message is being polled (its handler waits for
\* a retrieval or sleeps), nothing holds back another message: a message
\* that is next to arrive can arrive in any conversation, and a handler
\* that waits for a call or a sleep can take its next step.
C20_PollingBlocksNobody ==
  \A m, n \in Msgs :
    (m # n /\ h[m].pc \in {"awaitRetrieve", "sleeping"}) =>
      /\ (h[n].pc = "idle" /\ \A k \in Msgs : k < n => h[k].pc # "idle") =>
           \A c \in Convs : ENABLED PrivateMessage(n, c, UserText(n))
      /\ h[n].pc \notin {"idle", "done", "rejected"} => ENABLED Proceeds(n)

\* C20, its case: a message of another conversation, which arrived later,
\* has been admitted, polled to 'completed' and answered, while the first
\* message's handler still sleeps between two retrievals.
C20_AnsweredWhileOtherSleeps ==
  \E m, n \in Msgs :
    /\ h[m].conv # h[n].conv
    /\ h[m].pc = "sleeping" /\ h[m].arrAt = 0
    /\ h[n].arrAt = Penalty
    /\ h[n].gate = "admitted"
    /\ h[n].status = "completed" /\ h[n].pc = "done"
    /\ sent[n] = <<Reply(h[n].resp)>>

(* --------------------- claims on the other outcomes -------------------- *)

\* C21: when statusCheckLoop returns 'cancelled' or 'expired' the handler
\* ends there: nothing is sent to the user for that message, no interaction
\* record is written, no further call is made, and nextAvailableTime is as
\* it was.
C21_CancelledOrExpiredIsSilent ==
  [][\A m \in Msgs :
       h'[m].status \in {"cancelled", "expired"} =>
         /\ h'[m].pc = "done"
         /\ sent'[m] = <<>>
         /\ privateMessages'[m] = 0
         /\ ~h'[m].penalized
         /\ h'[m].calls = h'[m].created + 2 + h'[m].polls
         /\ h'[m] # h[m] =>
              /\ h[m].pc = "awaitRetrieve"
              /\ nextAvailableTime' = nextAvailableTime
              /\ privateMessages' = privateMessages
              /\ sent' = sent]_vars

\* C21, its case: a run that expired at its second retrieval; the handler
\* has ended and the user has been sent nothing.
C21_ExpiredSilently ==
  \E m \in Msgs :
    /\ h[m].status = "expired" /\ h[m].pc = "done"
    /\ polled[m] = <<"queued", "expired">>
    /\ sent[m] = <<>>
    /\ privateMessages[m] = 0
    /\ nfail = 0

(* ------------------------ claims on the sessions ----------------------- *)

\* C22: the start command in the trigger channel sets dmSessions[u] to
\* now + 600000 whatever it was before, and it is the only thing that
\* changes dmSessions: no step of the handler of a message (a direct
\* message admitted or refused, whatever becomes of its run) changes any
\* entry.
C22_OnlyStartSetsSession ==
  [][/\ \A u \in Convs :
          (lastStart'[u] # lastStart[u] \/ dmSessions'[u] # dmSessions[u]) =>
            /\ dmSessions'[u] = now + SessionWindow
            /\ lastStart'[u] = now
            /\ h' = h
            /\ \A v \in Convs \ {u} : dmSessions'[v] = dmSessions[v]
     /\ h' # h => dmSessions' = dmSessions]_vars

\* C22, its case: a user whose message at 0 was admitted and answered has
\* started a new session at 100, which ends at 100 + 600000.
C22_SessionOverwritten ==
  \E m \in Msgs :
    /\ h[m].kind = "dm" /\ h[m].arrAt = 0
    /\ h[m].gate = "admitted" /\ h[m].pc = "done"
    /\ lastStart[h[m].conv] = 100
    /\ dmSessions[h[m].conv] = 100 + SessionWindow

(* ------------------- claims on the rate gate, continued ---------------- *)

\* C23: nextAvailableTime changes only in the step in which the failure
\* detail of a failed run returns with the code rate_limit_exceeded; the
\* return of the failure detail with another code or with an error, and
\* every other step (arrival and admission, denial, the completed,
\* cancelled and expired outcomes, failing calls, the passage of time, the
\* creation and the deletion of channels) leave it as it is.
C23_GateMovedOnlyByRateLimit ==
  [][/\ nextAvailableTime' # nextAvailableTime =>
          \E m \in Msgs :
            /\ h[m].status = "failed"
            /\ DetailsReturn(m, TRUE, "rate_limit_exceeded")
     /\ \A m \in Msgs, ok \in BOOLEAN, code \in ErrorCodes :
          (DetailsReturn(m, ok, code)
             /\ ~(ok /\ code = "rate_limit_exceeded")) =>
            nextAvailableTime' = nextAvailableTime]_vars

\* C23, its case: after one penalty, applied at 0, a message has been
\* denied, a channel has been created and deleted, a call has failed, and
\* nextAvailableTime is still the one of that penalty.
C23_GateKeptThroughOtherSteps ==
  \E m, n \in Msgs :
    /\ h[m].penalized /\ penAt = 0
    /\ h[n].gate = "limited" /\ h[n].pc \in {"done", "rejected"}
    /\ \E s \in Spaces : chan[s] = "deleted"
    /\ nfail > 0
    /\ now = Penalty
    /\ nextAvailableTime = Penalty

(* ------------- claims on the registry of channels, continued ----------- *)

\* C24: a deletion that fails leaves the channel in channelsMap as long as
\* it exists on the platform: on the close_ticket path (where the pending
\* timer then tries again) and on the timer path, whether the fetch or the
\* delete is what failed.
C24_FailedDeletionStaysRegistered ==
  [][\A s \in Spaces :
       (/\ chan[s] = "live" /\ chan'[s] = "live"
        /\ s \in channelsMap
        /\ \/ closing'[s] < closing[s]
           \/ tpc[s] \in {"awaitFetch", "awaitDelete"} /\ tpc'[s] = "done") =>
         s \in channelsMap']_vars

\* C24, where it fails: the delete call of the timer callback, the only one
\* there was, has failed; the channel exists and is not in channelsMap.
C24_DroppedAfterFailedTimerDelete ==
  \E s \in Spaces :
    /\ chan[s] = "live"
    /\ tpc[s] = "done"
    /\ deleteCalls[s] = 1 /\ presses[s] = 0
    /\ faults
    /\ s \notin channelsMap

(* --------------------- claims on concurrency, continued ---------------- *)

\* C25: the reply sent for a message is the text (cut to 1999 characters) of
\* an assistant message that this message's own run put into the thread,
\* also when another message of the same conversation is appended to the
\* thread while the run is in flight; it is never the text of a user
\* message.
C25_ReplyIsOwnAssistantMessage ==
  \A m \in Msgs :
    \A i \in 1..Len(sent[m]) :
      sent[m][i].kind = "reply" =>
        \E j \in 1..Len(threads[h[m].tid]) :
          /\ threads[h[m].tid][j].role = "assistant"
          /\ threads[h[m].tid][j].of = m
          /\ LET own == threads[h[m].tid][j].text
                 n == IF Len(own) > ReplyCharLimit THEN ReplyCharLimit
                                                   ELSE Len(own)
             IN /\ Len(sent[m][i].text) = n
                /\ \A k \in 1..n : sent[m][i].text[k] = own[k]

\* C25, where it fails: a message has been answered with the text of the
\* other message of its conversation, which the user wrote.
C25_AnsweredWithUserText ==
  \E m, n \in Msgs :
    /\ m # n
    /\ h[m].conv = h[n].conv /\ h[m].tid = h[n].tid
    /\ h[m].status = "completed"
    /\ sent[m] = <<Reply(h[n].content)>>

\* C26: openai.beta.threads.runs.create is never called inside a penalty
\* window: at every call now >= nextAvailableTime, also for a message that
\* passed the rate check before another message's run brought the penalty.
C26_NoRunStartedInPenaltyWindow ==
  [][\A m \in Msgs :
       (h[m].pc = "awaitAdd" /\ h'[m].pc = "awaitRun") =>
         now >= nextAvailableTime]_vars

\* C26, where it fails: a message admitted at 0 waits for addMessage, at
\* whose return it calls runs.create, and the other message has meanwhile
\* brought a penalty that lasts until 20000.
C26_AdmittedBeforePenalty ==
  \E m, n \in Msgs :
    /\ h[n].penalized /\ h[n].pc = "done" /\ penAt = 0
    /\ h[m].gate = "admitted" /\ h[m].arrAt = 0
    /\ h[m].pc = "awaitAdd"
    /\ now < nextAvailableTime

(* ------------------- claims on failing calls, continued ---------------- *)

\* C27: for each message at most one reply or notice is sent to the user,
\* whatever the outcome, also when the run failed and the retrieval of the
\* failure detail throws.
C27_AtMostOneDelivery ==
  \A m \in Msgs : Len(sent[m]) <= 1

\* C27, where it fails: the run failed, the failure notice was sent, the
\* retrieval of the failure detail threw, and the catch has sent the
\* processing-error notice as well.
C27_TwoNotices ==
  \E m \in Msgs :
    /\ h[m].status = "failed" /\ h[m].pc = "done"
    /\ ~h[m].penalized
    /\ nfail = 1
    /\ sent[m] = <<Notice("run_failed"), Notice("processing_error")>>

====
